---------------------------- MODULE Spec2Model ----------------------------
(***************************************************************************)
(* A model of extcap.c (Wireshark's external-capture core), non-WIN32      *)
(* build: the interface registry `ifaces`, the directory scan of           *)
(* extcap_foreach with its three callbacks, the capability queries, and    *)
(* the per-session FIFO / helper-process lifecycle.                        *)
(***************************************************************************)
EXTENDS Integers, Sequences, FiniteSets, TLC

(***************************************************************************)
(* Bounds of the model.                                                    *)
(***************************************************************************)
\* number of helper programs in the extcap directory
MaxHelpers == 2
\* number of interface sentences one helper run can emit
MaxOut == 2
\* number of interfaces configured in the capture session
MaxEntries == 2
\* number of calls of extcaps_init_initerfaces / extcap_cleanup on the session
MaxCalls == 3
\* number of library calls (create_tempfile, ws_unlink, mkfifo,
\* g_spawn_async) that fail in one run of the program
MaxFaults == 2

(***************************************************************************)
(* Values.                                                                 *)
(***************************************************************************)
\* a NULL char pointer (an interface name, a helper path, an error string)
NULL == "NULL"
\* interface names ("call" values) the parser can emit
IfNames == {"eth-ext", "usb-ext"}
\* the link-layer types a helper may list for an interface
DltOutputs == {<< >>, <<"EN10MB">>}
\* the parsed argument list of one --extcap-config run (opaque to this file)
ConfigOutputs == {<<"arguments">>}

RECURSIVE SeqsUpTo(_, _)
\* all sequences over S of length at most n
SeqsUpTo(S, n) ==
    IF n = 0 THEN {<< >>}
    ELSE LET shorter == SeqsUpTo(S, n - 1)
         IN  shorter \cup {Append(s, x) : s \in shorter, x \in S}

\* what the parser can return for one --extcap-interfaces run
InterfaceOutputs == SeqsUpTo(IfNames, MaxOut)

VARIABLES
    dir,        \* the extcap directory: file names in g_dir_read_name order
    ifaces,     \* static GHashTable *ifaces: NULL, or name -> helper path
    pc,         \* the public function being executed, or "idle"
    pos,        \* extcap_foreach: index in dir of the next entry to read
    keep_going, \* extcap_foreach: the loop flag
    ifname,     \* the ifname argument of the running / last capability query
    err_str,    \* the caller's *err_str slot
    data,       \* cb_data: the GList being built, or the caps pointer
    retval,     \* return value of the last finished public function
    spawned,    \* history: g_spawn_sync calls of the running / last function
    warnings,   \* history: the "already provided by" warnings of the last pass
    prevNames   \* history: names registered when the last pass started

VARIABLES
    session,    \* capture_opts->ifaces: the array of interface_options
    disk,       \* the temporary directory: what exists at each path
    icnt,       \* the loop index of extcaps_init_initerfaces / extcap_cleanup
    calls,      \* number of session calls started so far
    faults,     \* number of library calls that have failed so far
    events,     \* history: what the running / last session call did, by entry
    released,   \* history: the pids handed to g_spawn_close_pid, in order
    before      \* history: the call that returned before this one, and the
                \* session it left

\* the variables only the registry side writes, and only the session side
regVars == <<dir, ifaces, pos, keep_going, ifname, err_str, data, spawned,
             warnings, prevNames>>
sessVars == <<session, disk, icnt, calls, faults, events, released, before>>
vars == <<pc, retval, regVars, sessVars>>

(***************************************************************************)
(* The interface registry (extcap.c lines 63-136).  The value of the       *)
(* pointer `ifaces` is a record: created = FALSE is the NULL pointer,      *)
(* otherwise map is the hash table, name -> helper path.                   *)
(***************************************************************************)
\* name of the i-th directory entry, and the directory listing of n entries
HelperFile(i) == "helper" \o ToString(i)
Listing(n) == [i \in 1..n |-> HelperFile(i)]

\* full path of a directory entry: "%s/%s", dirname, file (line 169)
ExtcapPath(file) == "extcap_dir/" \o file

\* an empty hash table, and `ifaces` before the first extcap_if_cleanup
EmptyMap == [k \in {} |-> NULL]
NoTable == [created |-> FALSE, map |-> EmptyMap]

g_hash_table_size(t) == Cardinality(DOMAIN t.map)

g_hash_table_lookup(t, key) ==
    IF t.created /\ key \in DOMAIN t.map THEN t.map[key] ELSE NULL

g_hash_table_insert(t, key, value) ==
    [t EXCEPT !.map = [k \in DOMAIN t.map \cup {key} |->
                          IF k = key THEN value ELSE t.map[k]]]

extcap_if_exists(t, name) ==
    /\ name # NULL
    /\ t.created
    /\ g_hash_table_size(t) > 0
    /\ g_hash_table_lookup(t, name) # NULL

\* extcap_if_exists_for_extcap without the strcmp of line 105
extcap_if_exists_for_extcap_any(t, name, extcap) ==
    /\ extcap_if_exists(t, name)
    /\ g_hash_table_lookup(t, name) # NULL

extcap_if_exists_for_extcap(t, name, extcap) ==
    /\ extcap_if_exists(t, name)
    /\ g_hash_table_lookup(t, name) # NULL
    /\ g_hash_table_lookup(t, name) = extcap

extcap_if_executable(t, name) ==
    IF extcap_if_exists(t, name) THEN g_hash_table_lookup(t, name) ELSE NULL

\* extcap_if_cleanup without g_hash_table_remove_all
extcap_if_cleanup_keep(t) == [t EXCEPT !.created = TRUE]

extcap_if_cleanup(t) == [created |-> TRUE, map |-> EmptyMap]

\* extcap_if_add that never inserts
extcap_if_add_nothing(t, name, extcap) == t

extcap_if_add(t, name, extcap) ==
    IF ~t.created THEN t
    ELSE IF g_hash_table_lookup(t, name) = NULL
         THEN g_hash_table_insert(t, name, extcap)
         ELSE t

(***************************************************************************)
(* g_spawn_sync (extcap.c lines 180-182): what one run of a helper can     *)
(* give back.  A helper is an external program: each run may differ.       *)
(***************************************************************************)
SpawnOutcomes(outputs) ==
    {[status |-> FALSE, exit_status |-> 0, output |-> << >>]}
    \cup {[status |-> TRUE, exit_status |-> e, output |-> o] :
             e \in {0, 1}, o \in outputs}

\* the record of one g_spawn_sync call, kept in the histories
SpawnRecord(extcap, o) ==
    [extcap |-> extcap, status |-> o.status,
     exit_status |-> o.exit_status, output |-> o.output]

(***************************************************************************)
(* The callbacks of extcap_foreach.  A callback works on the record        *)
(*   [ifaces, data, err_str, keep_going, spawned, warnings]                *)
(* of what the scan reads and writes; keep_going holds its return value.   *)
(***************************************************************************)
\* the if_info_t built at lines 309-315
if_info(call, extcap) == [name |-> call, type |-> "IF_EXTCAP", extcap |-> extcap]

\* the warning logged at lines 300-301 when helper extcap emits a taken name
already_provided(t, call, extcap) ==
    [name |-> call, by |-> extcap_if_executable(t, call), extcap |-> extcap]

\* interfaces_cb_item with the extcap_if_exists test dropped and the insert
\* replacing an existing entry
interfaces_cb_item_overwrite(st, extcap, call) ==
    [st EXCEPT !.data = Append(@, if_info(call, extcap)),
               !.ifaces = g_hash_table_insert(@, call, extcap)]

\* interfaces_cb_item with g_list_prepend for g_list_append
interfaces_cb_item_prepend(st, extcap, call) ==
    IF extcap_if_exists(st.ifaces, call)
    THEN [st EXCEPT !.warnings = @ \cup {already_provided(st.ifaces, call, extcap)}]
    ELSE [st EXCEPT !.data = <<if_info(call, extcap)>> \o @,
                    !.ifaces = extcap_if_add(@, call, extcap)]

\* interfaces_cb_item skipping a name only when another helper owns it
interfaces_cb_item_other_path(st, extcap, call) ==
    IF /\ extcap_if_exists(st.ifaces, call)
       /\ ~extcap_if_exists_for_extcap(st.ifaces, call, extcap)
    THEN [st EXCEPT !.warnings = @ \cup {already_provided(st.ifaces, call, extcap)}]
    ELSE [st EXCEPT !.data = Append(@, if_info(call, extcap)),
                    !.ifaces = extcap_if_add(@, call, extcap)]

\* one turn of the while loop of interfaces_cb
interfaces_cb_item(st, extcap, call) ==
    IF extcap_if_exists(st.ifaces, call)
    THEN [st EXCEPT !.warnings = @ \cup {already_provided(st.ifaces, call, extcap)}]
    ELSE [st EXCEPT !.data = Append(@, if_info(call, extcap)),
                    !.ifaces = extcap_if_add(@, call, extcap)]

RECURSIVE interfaces_cb_loop(_, _, _, _)
interfaces_cb_loop(st, extcap, interfaces, i) ==
    IF i > Len(interfaces) THEN st
    ELSE interfaces_cb_loop(interfaces_cb_item(st, extcap, interfaces[i]),
                            extcap, interfaces, i + 1)

interfaces_cb(st, extcap, output) ==
    [interfaces_cb_loop(st, extcap, output, 1) EXCEPT !.keep_going = TRUE]

\* a pointer to the if_capabilities_t built by dlt_cb; NoCaps is the NULL
\* pointer (a pointer is a sequence of at most one pointee)
if_capabilities(linktype_list) ==
    <<[can_set_rfmon |-> FALSE, data_link_types |-> linktype_list]>>
NoCaps == << >>

dlt_cb(st, extcap, output) ==
    LET linktype_list == output
        st1 == IF linktype_list # << >>
               THEN [st EXCEPT !.data = if_capabilities(linktype_list)]
               ELSE IF st.err_str # "noslot"
                    THEN [st EXCEPT !.err_str = "Extcap returned no DLTs"]
                    ELSE st
    IN  [st1 EXCEPT !.keep_going = FALSE]

search_cb(st, extcap, output) ==
    [st EXCEPT !.data = Append(@, output), !.keep_going = TRUE]

\* the callback each public function hands to extcap_foreach
Callback(fn, st, extcap, output) ==
    CASE fn = "extcap_interface_list" -> interfaces_cb(st, extcap, output)
      [] fn = "extcap_get_if_dlts" -> dlt_cb(st, extcap, output)
      [] fn = "extcap_get_if_configuration" -> search_cb(st, extcap, output)

\* the output a helper can print for the verb each public function sends
Outputs(fn) ==
    CASE fn = "extcap_interface_list" -> InterfaceOutputs
      [] fn = "extcap_get_if_dlts" -> DltOutputs
      [] fn = "extcap_get_if_configuration" -> ConfigOutputs

(***************************************************************************)
(* extcap_foreach: the body of its while loop for directory entry `file`,  *)
(* the helper run giving outcome o.                                        *)
(***************************************************************************)
\* extcap_foreach_body giving up the scan when a helper run fails
extcap_foreach_body_stop(st, fn, name, file, o) ==
    LET extcap == ExtcapPath(file)
    IN  IF /\ extcap_if_exists(st.ifaces, name)
           /\ ~extcap_if_exists_for_extcap(st.ifaces, name, extcap)
        THEN st
        ELSE LET st1 == [st EXCEPT !.spawned = Append(@, SpawnRecord(extcap, o))]
             IN  IF o.status /\ o.exit_status = 0
                 THEN Callback(fn, st1, extcap, o.output)
                 ELSE [st1 EXCEPT !.keep_going = FALSE]

extcap_foreach_body(st, fn, name, file, o) ==
    LET extcap == ExtcapPath(file)
    IN  IF /\ extcap_if_exists(st.ifaces, name)
           /\ ~extcap_if_exists_for_extcap(st.ifaces, name, extcap)
        THEN st
        ELSE LET st1 == [st EXCEPT !.spawned = Append(@, SpawnRecord(extcap, o))]
             IN  IF o.status /\ o.exit_status = 0
                 THEN Callback(fn, st1, extcap, o.output)
                 ELSE st1

(***************************************************************************)
(* The public functions of the registry side.  A call runs from its entry  *)
(* action through one ExtcapForeachStep per directory entry to             *)
(* ExtcapForeachReturn; nothing else runs while pc # "idle" (the callers   *)
(* are single-threaded).                                                   *)
(***************************************************************************)
\* what the histories and the result hold while no call has returned yet
NoReturn == [fn |-> "none", value |-> << >>]

\* the names in the registry
Registered(t) == DOMAIN t.map

\* the scan record of the running call
ScanState ==
    [ifaces |-> ifaces, data |-> data, err_str |-> err_str,
     keep_going |-> keep_going, spawned |-> spawned, warnings |-> warnings]

\* extcap_interface_list up to its call of extcap_foreach (lines 326-340)
ExtcapInterfaceList ==
    /\ pc = "idle"
    /\ \E slot \in BOOLEAN : err_str' = IF slot THEN NULL ELSE "noslot"
    /\ ifaces' = extcap_if_cleanup(ifaces)
    /\ prevNames' = Registered(ifaces)
    /\ pc' = "extcap_interface_list"
    /\ ifname' = NULL
    /\ data' = << >>
    /\ pos' = 1
    /\ keep_going' = TRUE
    /\ spawned' = << >>
    /\ warnings' = {}
    /\ retval' = NoReturn
    /\ UNCHANGED <<dir, sessVars>>

\* extcap_get_if_dlts without the registry test of line 265
extcap_get_if_dlts_enters_always(t, name) == TRUE

\* the test at line 265 that lets extcap_get_if_dlts reach extcap_foreach
extcap_get_if_dlts_enters(t, name) == extcap_if_exists(t, name)

\* the test at line 374 of extcap_get_if_configuration
extcap_get_if_configuration_enters(t, name) == extcap_if_exists(t, name)

\* extcap_get_if_dlts up to its call of extcap_foreach (lines 255-273), or
\* all of it when the name is not registered
ExtcapGetIfDlts ==
    /\ pc = "idle"
    /\ \E name \in IfNames \cup {NULL}, slot \in BOOLEAN :
         LET atEntry == IF ~slot THEN "noslot"
                        ELSE IF name # NULL THEN NULL ELSE "unset"
         IN  /\ ifname' = name
             /\ IF extcap_get_if_dlts_enters(ifaces, name)
                THEN /\ pc' = "extcap_get_if_dlts"
                     /\ err_str' = IF slot THEN NULL ELSE "noslot"
                     /\ pos' = 1
                     /\ keep_going' = TRUE
                     /\ retval' = NoReturn
                ELSE /\ pc' = "idle"
                     /\ err_str' = atEntry
                     /\ pos' = 0
                     /\ keep_going' = FALSE
                     /\ retval' = [fn |-> "extcap_get_if_dlts", value |-> NoCaps]
    /\ data' = NoCaps
    /\ spawned' = << >>
    /\ UNCHANGED <<dir, ifaces, warnings, prevNames, sessVars>>

\* extcap_get_if_configuration up to its call of extcap_foreach (lines
\* 369-387), or all of it when the name is not registered; its err_str is
\* the NULL local of line 372
ExtcapGetIfConfiguration ==
    /\ pc = "idle"
    /\ \E name \in IfNames \cup {NULL} :
         /\ ifname' = name
         /\ IF extcap_get_if_configuration_enters(ifaces, name)
            THEN /\ pc' = "extcap_get_if_configuration"
                 /\ pos' = 1
                 /\ keep_going' = TRUE
                 /\ retval' = NoReturn
            ELSE /\ pc' = "idle"
                 /\ pos' = 0
                 /\ keep_going' = FALSE
                 /\ retval' = [fn |-> "extcap_get_if_configuration",
                               value |-> << >>]
    /\ err_str' = "noslot"
    /\ data' = << >>
    /\ spawned' = << >>
    /\ UNCHANGED <<dir, ifaces, warnings, prevNames, sessVars>>

\* one turn of the while loop of extcap_foreach (lines 154-189)
ExtcapForeachStep ==
    /\ pc # "idle"
    /\ keep_going
    /\ pos <= Len(dir)
    /\ \E o \in SpawnOutcomes(Outputs(pc)) :
         LET st == extcap_foreach_body(ScanState, pc, ifname, dir[pos], o)
         IN  /\ ifaces' = st.ifaces
             /\ data' = st.data
             /\ err_str' = st.err_str
             /\ keep_going' = st.keep_going
             /\ spawned' = st.spawned
             /\ warnings' = st.warnings
    /\ pos' = pos + 1
    /\ UNCHANGED <<dir, pc, ifname, retval, prevNames, sessVars>>

\* the loop of extcap_foreach ends and the public function returns
ExtcapForeachReturn ==
    /\ pc # "idle"
    /\ ~keep_going \/ pos > Len(dir)
    /\ retval' = [fn |-> pc, value |-> data]
    /\ pc' = "idle"
    /\ pos' = 0
    /\ keep_going' = FALSE
    /\ UNCHANGED <<dir, ifaces, ifname, err_str, data, spawned, warnings,
                   prevNames, sessVars>>

NextRegistry ==
    \/ ExtcapInterfaceList
    \/ ExtcapGetIfDlts
    \/ ExtcapGetIfConfiguration
    \/ ExtcapForeachStep
    \/ ExtcapForeachReturn

(***************************************************************************)
(* The capture session (extcap.c lines 393-574): the interface_options     *)
(* array of capture_opts, the FIFOs in the temporary directory and the     *)
(* helper processes.                                                       *)
(***************************************************************************)
\* (GPid)-1, the pid of an entry that has no helper (line 431)
InvalidPid == -1
\* GPid pid = 0, what extcaps_init_initerfaces hands to g_spawn_async
UnsetPid == 0

\* the name create_tempfile picks for entry k in session call c: a new name
\* every time
TmpName(c, k) ==
    "/tmp/wireshark_extcap_" \o ToString(c) \o "_" \o ToString(k)
TmpNames == {TmpName(c, k) : c \in 1..MaxCalls, k \in 1..MaxEntries}

\* the pid g_spawn_async gives the helper started for entry k in call c
Pid(c, k) == c * (MaxEntries + 1) + k

\* the extcap_args hash table configured for entry k: created = FALSE is the
\* NULL pointer, pairs are its key/value pairs in g_hash_table_foreach order.
\* The first entry has an option with a value and one with a NULL value, the
\* second has no table, the others an empty table.
ExtcapArgs(k) ==
    CASE k = 1 -> [created |-> TRUE,
                   pairs |-> <<<<"--channel", "6">>, <<"--verbose", NULL>>>>]
      [] k = 2 -> [created |-> FALSE, pairs |-> << >>]
      [] OTHER -> [created |-> TRUE, pairs |-> << >>]

\* an interface_options as the session is configured, before any init
interface_options(k, type) ==
    [if_type |-> type,
     name |-> "if" \o ToString(k),
     extcap |-> IF type = "IF_EXTCAP" THEN ExtcapPath(HelperFile(k)) ELSE NULL,
     extcap_args |-> ExtcapArgs(k),
     extcap_fifo |-> NULL,
     extcap_pid |-> InvalidPid]

\* g_array_remove_index and g_array_insert_val on capture_opts->ifaces
g_array_remove_index(a, i) ==
    [j \in 1..(Len(a) - 1) |-> IF j < i THEN a[j] ELSE a[j + 1]]

g_array_insert_val(a, i, v) ==
    [j \in 1..(Len(a) + 1) |->
        IF j < i THEN a[j] ELSE IF j = i THEN v ELSE a[j - 1]]

\* the argument words of the helper command line
EXTCAP_ARGUMENT_RUN_CAPTURE == "--capture"
EXTCAP_ARGUMENT_INTERFACE == "--extcap-interface"
EXTCAP_ARGUMENT_RUN_PIPE == "--fifo"

\* extcap_arg_cb: a key and, when it is not NULL, its value are added
extcap_arg_cb(args, key, value) ==
    IF key # NULL
    THEN IF value # NULL THEN args \o <<key, value>> ELSE Append(args, key)
    ELSE args

RECURSIVE g_hash_table_foreach(_, _, _)
\* g_hash_table_foreach(extcap_args, extcap_arg_cb, args), from pair i on
g_hash_table_foreach(pairs, args, i) ==
    IF i > Len(pairs) THEN args
    ELSE g_hash_table_foreach(pairs,
                              extcap_arg_cb(args, pairs[i][1], pairs[i][2]),
                              i + 1)

\* the pointer array built at lines 476-487: add_arg(X) adds g_strdup(X),
\* which is NULL for a NULL X
extcap_call(interface_opts) ==
    LET fixed == <<interface_opts.extcap,
                   EXTCAP_ARGUMENT_RUN_CAPTURE,
                   EXTCAP_ARGUMENT_INTERFACE,
                   interface_opts.name,
                   EXTCAP_ARGUMENT_RUN_PIPE,
                   interface_opts.extcap_fifo>>
        extra == IF interface_opts.extcap_args.created
                 THEN g_hash_table_foreach(interface_opts.extcap_args.pairs,
                                           fixed, 1)
                 ELSE fixed
    IN  Append(extra, NULL)

RECURSIVE Argv(_)
\* the argument vector g_spawn_async reads from a pointer array: the
\* pointers before the first NULL
Argv(pdata) ==
    IF pdata = << >> \/ Head(pdata) = NULL THEN << >>
    ELSE <<Head(pdata)>> \o Argv(Tail(pdata))

\* g_spawn_async(NULL, args->pdata, ..., &pid, NULL) for entry k in call c:
\* pid is written only when the helper was started
g_spawn_async(pdata, pid, c, k, o) ==
    [ok |-> o.spawn,
     pid |-> IF o.spawn THEN Pid(c, k) ELSE pid,
     argv |-> Argv(pdata)]

\* no g_spawn_async call
NoSpawn == [ok |-> FALSE, pid |-> InvalidPid, argv |-> << >>]

file_exists(d, path) == path \in DOMAIN d /\ d[path] # "none"

\* ws_unlink, which succeeds or leaves the file
ws_unlink(d, path, ok) == IF ok THEN [d EXCEPT ![path] = "none"] ELSE d

\* what the library calls of one turn of the init loop can do: tmp, unlink,
\* mkfifo, spawn tell whether create_tempfile, ws_unlink, mkfifo and
\* g_spawn_async succeed; a call that is not reached is left TRUE, and mkfifo
\* cannot succeed on a file that could not be unlinked
InitOutcomes ==
    {o \in [tmp : BOOLEAN, unlink : BOOLEAN, mkfifo : BOOLEAN, spawn : BOOLEAN] :
        /\ ~o.tmp => (o.unlink /\ o.mkfifo /\ o.spawn)
        /\ ~o.unlink => ~o.mkfifo}

\* the number of failing library calls in an outcome
InitFaults(o) ==
    (IF ~o.tmp THEN 1 ELSE 0)
    + (IF ~o.unlink THEN 1 ELSE 0)
    + (IF o.unlink /\ ~o.mkfifo THEN 1 ELSE 0)
    + (IF ~o.spawn THEN 1 ELSE 0)

\* extcap_create_pipe(&fifo), non-WIN32 branch: the value returned, *fifo and
\* the directory afterwards; created tells whether mkfifo made the FIFO
extcap_create_pipe(fifo, d, temp_name, o) ==
    IF ~o.tmp
    THEN [ret |-> FALSE, fifo |-> fifo, disk |-> d, created |-> FALSE]
    ELSE LET d1 == [d EXCEPT ![temp_name] = "file"]
             d2 == IF file_exists(d1, temp_name)
                   THEN ws_unlink(d1, temp_name, o.unlink)
                   ELSE d1
             made == o.mkfifo /\ ~file_exists(d2, temp_name)
             d3 == IF made THEN [d2 EXCEPT ![temp_name] = "fifo"] ELSE d2
         IN  [ret |-> TRUE,
              fifo |-> IF made THEN temp_name ELSE fifo,
              disk |-> d3,
              created |-> made]

\* the history entry of one turn of the init loop
InitEvent(k, pipe, launched, spawn) ==
    [entry |-> k,
     pipe_ret |-> pipe.ret,
     created |-> pipe.created,
     fifo |-> pipe.fifo,
     is_fifo |-> pipe.fifo # NULL /\ pipe.disk[pipe.fifo] = "fifo",
     launched |-> launched,
     spawn_ok |-> spawn.ok,
     argv |-> spawn.argv,
     pid |-> spawn.pid]

\* extcaps_init_body with the result of extcap_create_pipe tested only after
\* the helper has been started
extcaps_init_body_late_test(st, k, c, o) ==
    LET interface_opts == st.session[k]
    IN  IF interface_opts.if_type # "IF_EXTCAP"
        THEN st
        ELSE LET pipe == extcap_create_pipe(interface_opts.extcap_fifo, st.disk,
                                            TmpName(c, k), o)
                 with_fifo == [interface_opts EXCEPT !.extcap_fifo = pipe.fifo]
                 spawn == g_spawn_async(extcap_call(with_fifo), UnsetPid, c, k, o)
                 opts == [with_fifo EXCEPT !.extcap_pid = spawn.pid]
             IN  [st EXCEPT !.disk = pipe.disk,
                            !.events = Append(@, InitEvent(k, pipe, TRUE, spawn)),
                            !.session = g_array_insert_val(
                                            g_array_remove_index(@, k), k, opts),
                            !.returned = ~pipe.ret,
                            !.result = pipe.ret]

\* extcaps_init_body without the `continue` of lines 468-469 that skips a
\* native interface
extcaps_init_body_no_skip(st, k, c, o) ==
    LET interface_opts == st.session[k]
        pipe == extcap_create_pipe(interface_opts.extcap_fifo, st.disk,
                                   TmpName(c, k), o)
        with_fifo == [interface_opts EXCEPT !.extcap_fifo = pipe.fifo]
        spawn == g_spawn_async(extcap_call(with_fifo), UnsetPid, c, k, o)
        opts == [with_fifo EXCEPT !.extcap_pid = spawn.pid]
    IN  IF ~pipe.ret
        THEN [st EXCEPT !.disk = pipe.disk,
                        !.events = Append(@, InitEvent(k, pipe, FALSE, NoSpawn)),
                        !.returned = TRUE,
                        !.result = FALSE]
        ELSE [st EXCEPT !.disk = pipe.disk,
                        !.events = Append(@, InitEvent(k, pipe, TRUE, spawn)),
                        !.session = g_array_insert_val(
                                        g_array_remove_index(@, k), k, opts)]

\* the body of the for loop of extcaps_init_initerfaces for entry k, in
\* session call c.  It works on the record
\*   [session, disk, events, released, returned, result]
\* where returned tells that the function returned from inside the loop.
extcaps_init_body(st, k, c, o) ==
    LET interface_opts == st.session[k]
    IN  IF interface_opts.if_type # "IF_EXTCAP"
        THEN st
        ELSE LET pipe == extcap_create_pipe(interface_opts.extcap_fifo, st.disk,
                                            TmpName(c, k), o)
                 with_fifo == [interface_opts EXCEPT !.extcap_fifo = pipe.fifo]
                 spawn == g_spawn_async(extcap_call(with_fifo), UnsetPid, c, k, o)
                 opts == [with_fifo EXCEPT !.extcap_pid = spawn.pid]
             IN  IF ~pipe.ret
                 THEN [st EXCEPT !.disk = pipe.disk,
                                 !.events = Append(@, InitEvent(k, pipe, FALSE, NoSpawn)),
                                 !.returned = TRUE,
                                 !.result = FALSE]
                 ELSE [st EXCEPT !.disk = pipe.disk,
                                 !.events = Append(@, InitEvent(k, pipe, TRUE, spawn)),
                                 !.session = g_array_insert_val(
                                                 g_array_remove_index(@, k), k, opts)]

\* the test of line 418: the entry has a FIFO path and the file is there
FifoOnDisk(d, interface_opts) ==
    /\ interface_opts.extcap_fifo # NULL
    /\ file_exists(d, interface_opts.extcap_fifo)

\* the history entry of one turn of the cleanup loop
CleanupEvent(k, unlink, closed) == [entry |-> k, unlink |-> unlink, closed |-> closed]

\* extcap_cleanup_body with the file_exists test of line 418 negated: the
\* FIFO that is there is never unlinked
extcap_cleanup_body_no_unlink(st, k, unlink_ok) ==
    LET interface_opts == st.session[k]
    IN  IF interface_opts.if_type # "IF_EXTCAP"
        THEN st
        ELSE LET close == interface_opts.extcap_pid # InvalidPid
             IN  [st EXCEPT
                     !.released = IF close
                                  THEN Append(@, interface_opts.extcap_pid)
                                  ELSE @,
                     !.events = Append(@, CleanupEvent(k, "absent",
                                    IF close THEN interface_opts.extcap_pid
                                    ELSE InvalidPid))]

\* extcap_cleanup_body leaving the loop turn early (a `continue`) when the
\* entry has no FIFO on disk
extcap_cleanup_body_skip_absent(st, k, unlink_ok) ==
    LET interface_opts == st.session[k]
    IN  IF interface_opts.if_type # "IF_EXTCAP"
           \/ ~FifoOnDisk(st.disk, interface_opts)
        THEN st
        ELSE LET close == interface_opts.extcap_pid # InvalidPid
             IN  [st EXCEPT
                     !.disk = ws_unlink(@, interface_opts.extcap_fifo, unlink_ok),
                     !.released = IF close
                                  THEN Append(@, interface_opts.extcap_pid)
                                  ELSE @,
                     !.events = Append(@, CleanupEvent(k,
                                    IF unlink_ok THEN "done" ELSE "failed",
                                    IF close THEN interface_opts.extcap_pid
                                    ELSE InvalidPid))]

\* the body of the for loop of extcap_cleanup for entry k; unlink_ok tells
\* whether ws_unlink succeeds.  interface_opts is a copy of the array element
\* (line 398) and is not stored back: what lines 422 and 434 assign is lost.
extcap_cleanup_body(st, k, unlink_ok) ==
    LET interface_opts == st.session[k]
    IN  IF interface_opts.if_type # "IF_EXTCAP"
        THEN st
        ELSE LET there == FifoOnDisk(st.disk, interface_opts)
                 close == interface_opts.extcap_pid # InvalidPid
             IN  [st EXCEPT
                     !.disk = IF there
                              THEN ws_unlink(@, interface_opts.extcap_fifo, unlink_ok)
                              ELSE @,
                     !.released = IF close
                                  THEN Append(@, interface_opts.extcap_pid)
                                  ELSE @,
                     !.events = Append(@, CleanupEvent(k,
                                    IF ~there THEN "absent"
                                    ELSE IF unlink_ok THEN "done" ELSE "failed",
                                    IF close THEN interface_opts.extcap_pid
                                    ELSE InvalidPid))]

\* the record the loop bodies work on
LoopState ==
    [session |-> session, disk |-> disk, events |-> events,
     released |-> released, returned |-> FALSE, result |-> TRUE]

\* extcaps_init_initerfaces is called (line 455)
ExtcapsInitInterfaces ==
    /\ pc = "idle"
    /\ calls < MaxCalls
    /\ pc' = "extcaps_init_initerfaces"
    /\ calls' = calls + 1
    /\ icnt' = 1
    /\ events' = << >>
    /\ before' = [fn |-> retval.fn, session |-> session]
    /\ retval' = NoReturn
    /\ UNCHANGED <<session, disk, faults, released, regVars>>

\* one turn of the for loop of extcaps_init_initerfaces (lines 460-501)
ExtcapsInitStep ==
    /\ pc = "extcaps_init_initerfaces"
    /\ icnt <= Len(session)
    /\ \E o \in InitOutcomes :
         LET st == extcaps_init_body(LoopState, icnt, calls, o)
             failed == IF session[icnt].if_type = "IF_EXTCAP"
                       THEN InitFaults(o) ELSE 0
         IN  /\ session[icnt].if_type # "IF_EXTCAP" => InitFaults(o) = 0
             /\ faults + failed <= MaxFaults
             /\ faults' = faults + failed
             /\ session' = st.session
             /\ disk' = st.disk
             /\ events' = st.events
             /\ released' = st.released
             /\ IF st.returned
                THEN /\ pc' = "idle"
                     /\ icnt' = 0
                     /\ retval' = [fn |-> pc, value |-> st.result]
                ELSE /\ pc' = pc
                     /\ icnt' = icnt + 1
                     /\ retval' = retval
    /\ UNCHANGED <<calls, before, regVars>>

\* the loop is over: return TRUE (line 503)
ExtcapsInitReturn ==
    /\ pc = "extcaps_init_initerfaces"
    /\ icnt > Len(session)
    /\ pc' = "idle"
    /\ icnt' = 0
    /\ retval' = [fn |-> pc, value |-> TRUE]
    /\ UNCHANGED <<session, disk, calls, faults, events, released, before, regVars>>

\* extcap_cleanup is called (line 393)
ExtcapCleanup ==
    /\ pc = "idle"
    /\ calls < MaxCalls
    /\ pc' = "extcap_cleanup"
    /\ calls' = calls + 1
    /\ icnt' = 1
    /\ events' = << >>
    /\ before' = [fn |-> retval.fn, session |-> session]
    /\ retval' = NoReturn
    /\ UNCHANGED <<session, disk, faults, released, regVars>>

\* one turn of the for loop of extcap_cleanup (lines 397-436)
ExtcapCleanupStep ==
    /\ pc = "extcap_cleanup"
    /\ icnt <= Len(session)
    /\ \E unlink_ok \in BOOLEAN :
         LET st == extcap_cleanup_body(LoopState, icnt, unlink_ok)
             reached == /\ session[icnt].if_type = "IF_EXTCAP"
                        /\ FifoOnDisk(disk, session[icnt])
             failed == IF reached /\ ~unlink_ok THEN 1 ELSE 0
         IN  /\ ~reached => unlink_ok
             /\ faults + failed <= MaxFaults
             /\ faults' = faults + failed
             /\ session' = st.session
             /\ disk' = st.disk
             /\ events' = st.events
             /\ released' = st.released
    /\ icnt' = icnt + 1
    /\ UNCHANGED <<pc, retval, calls, before, regVars>>

\* the loop is over: extcap_cleanup returns (line 437)
ExtcapCleanupReturn ==
    /\ pc = "extcap_cleanup"
    /\ icnt > Len(session)
    /\ pc' = "idle"
    /\ icnt' = 0
    /\ retval' = [fn |-> pc, value |-> "void"]
    /\ UNCHANGED <<session, disk, calls, faults, events, released, before, regVars>>

NextSession ==
    \/ ExtcapsInitInterfaces
    \/ ExtcapsInitStep
    \/ ExtcapsInitReturn
    \/ ExtcapCleanup
    \/ ExtcapCleanupStep
    \/ ExtcapCleanupReturn

(***************************************************************************)
(* Initial states and specifications.                                      *)
(***************************************************************************)
\* the registry side before any call: no table yet, a directory of n helpers
InitRegistry ==
    /\ \E n \in 0..MaxHelpers : dir = Listing(n)
    /\ ifaces = NoTable
    /\ pos = 0
    /\ keep_going = FALSE
    /\ ifname = NULL
    /\ err_str = "noslot"
    /\ data = << >>
    /\ spawned = << >>
    /\ warnings = {}
    /\ prevNames = {}

\* a session of n configured interfaces, each helper-backed or native, no
\* FIFO and no helper yet
InitSession ==
    /\ \E n \in 1..MaxEntries :
         \E types \in [1..n -> {"IF_EXTCAP", "IF_WIRED"}] :
            session = [k \in 1..n |-> interface_options(k, types[k])]
    /\ disk = [path \in TmpNames |-> "none"]
    /\ icnt = 0
    /\ calls = 0
    /\ faults = 0
    /\ events = << >>
    /\ released = << >>
    /\ before = [fn |-> "none", session |-> << >>]

\* no capture session configured
NoSession ==
    /\ session = << >>
    /\ disk = [path \in TmpNames |-> "none"]
    /\ icnt = 0
    /\ calls = 0
    /\ faults = 0
    /\ events = << >>
    /\ released = << >>
    /\ before = [fn |-> "none", session |-> << >>]

\* an empty extcap directory, nothing discovered
NoRegistry ==
    /\ dir = Listing(0)
    /\ ifaces = NoTable
    /\ pos = 0
    /\ keep_going = FALSE
    /\ ifname = NULL
    /\ err_str = "noslot"
    /\ data = << >>
    /\ spawned = << >>
    /\ warnings = {}
    /\ prevNames = {}

Init == pc = "idle" /\ retval = NoReturn /\ InitRegistry /\ InitSession

\* the same, with no capture session configured
InitRegistryOnly == pc = "idle" /\ retval = NoReturn /\ InitRegistry /\ NoSession

\* the same, with an empty extcap directory
InitSessionOnly == pc = "idle" /\ retval = NoReturn /\ NoRegistry /\ InitSession

Next == NextRegistry \/ NextSession

Spec == Init /\ [][Next]_vars

\* discovery and capability queries, with no capture session
SpecRegistry == InitRegistryOnly /\ [][NextRegistry]_vars

\* the calls on a capture session, with nothing discovered
SpecSession == InitSessionOnly /\ [][NextSession]_vars

(***************************************************************************)
(* Properties of discovery and of the capability queries.                  *)
(***************************************************************************)
Range(seq) == {seq[i] : i \in DOMAIN seq}

\* extcap_interface_list is running / has just returned
ListRunning == pc = "extcap_interface_list"
ListReturned == pc = "idle" /\ retval.fn = "extcap_interface_list"

QueryFns == {"extcap_get_if_dlts", "extcap_get_if_configuration"}
QueryRunning == pc \in QueryFns
QueryReturned == pc = "idle" /\ retval.fn \in QueryFns

\* the interface names a helper run advertised: its parsed output, when the
\* run started and exited with code 0
Advertised(run) == IF run.status /\ run.exit_status = 0 THEN run.output ELSE << >>

\* the runs of the pass, by position, that advertised name
Advertisers(name) == {i \in DOMAIN spawned : name \in Range(Advertised(spawned[i]))}

FirstAdvertiser(name) ==
    CHOOSE i \in Advertisers(name) : \A j \in Advertisers(name) : i <= j

\* C1: during and after a discovery pass every name advertised so far is
\* owned by the first helper, in scan order, that advertised it; a later
\* helper advertising the same name never takes it over.
C1_FirstAdvertiserOwns ==
    (ListRunning \/ ListReturned) =>
        \A name \in IfNames :
            Advertisers(name) # {} =>
                g_hash_table_lookup(ifaces, name) = spawned[FirstAdvertiser(name)].extcap

\* the scenario of the claim: the first helper advertises eth-ext and
\* usb-ext, the second advertises eth-ext too, and the pass has returned
C1_Witness ==
    /\ ListReturned
    /\ Len(spawned) >= 2
    /\ Advertised(spawned[1]) = <<"eth-ext", "usb-ext">>
    /\ "eth-ext" \in Range(Advertised(spawned[2]))
    /\ g_hash_table_lookup(ifaces, "eth-ext") = ExtcapPath(dir[1])

\* C2: a capability query for a registered name runs the helper the registry
\* records as owner of the name and no other: while the query runs only the
\* owner has been started, and when it returns exactly one run was made.
C2_QueryRunsOwnerOnly ==
    ((QueryRunning \/ QueryReturned) /\ extcap_if_exists(ifaces, ifname)) =>
        /\ \A i \in DOMAIN spawned :
               spawned[i].extcap = g_hash_table_lookup(ifaces, ifname)
        /\ QueryReturned => Len(spawned) = 1

\* a query has returned for a name that a second helper advertised too
C2_Witness ==
    /\ QueryReturned
    /\ extcap_if_exists(ifaces, ifname)
    /\ \E w \in warnings : w.name = ifname /\ w.extcap # w.by
    /\ Len(spawned) = 1
    /\ spawned[1].extcap = ExtcapPath(dir[1])

\* C3: a capability query for a NULL name or a name that is not registered
\* never reaches extcap_foreach: it returns an empty result and has started
\* no helper.
C3_UnregisteredQueryRunsNothing ==
    /\ QueryRunning => extcap_if_exists(ifaces, ifname)
    /\ (QueryReturned /\ ~extcap_if_exists(ifaces, ifname)) =>
           /\ retval.value = << >>
           /\ spawned = << >>

\* a query has returned for a name the last pass dropped from the registry,
\* with helpers present in the directory
C3_Witness ==
    /\ QueryReturned
    /\ ifname \in prevNames
    /\ ~extcap_if_exists(ifaces, ifname)
    /\ Len(dir) >= 1
    /\ spawned = << >>
    /\ retval.value = << >>

\* the helpers' advertised name sets are pairwise disjoint
DisjointAdvertisements ==
    \A i, j \in DOMAIN spawned :
        i # j => Range(Advertised(spawned[i])) \cap Range(Advertised(spawned[j])) = {}

RECURSIVE Once(_)
\* a sequence with every repetition of an earlier element removed
Once(seq) ==
    IF seq = << >> THEN << >>
    ELSE LET front == Once(SubSeq(seq, 1, Len(seq) - 1))
             last == seq[Len(seq)]
         IN  IF last \in Range(front) THEN front ELSE Append(front, last)

RECURSIVE UnionInScanOrder(_)
\* the records of the first n runs: run order outside, emission order inside
UnionInScanOrder(n) ==
    IF n = 0 THEN << >>
    ELSE LET names == Once(Advertised(spawned[n]))
         IN  UnionInScanOrder(n - 1)
             \o [k \in 1..Len(names) |-> if_info(names[k], spawned[n].extcap)]

\* every directory entry was run, in directory order
ScannedWholeDirectory ==
    /\ Len(spawned) = Len(dir)
    /\ \A i \in DOMAIN dir : spawned[i].extcap = ExtcapPath(dir[i])

\* C4: when the helpers advertise pairwise disjoint names, the list
\* extcap_interface_list returns is the union of what they advertised, each
\* interface once, helpers in directory order and each helper's interfaces in
\* the order it emitted them: a function of the directory and the outputs.
C4_DisjointUnionInOrder ==
    (ListReturned /\ DisjointAdvertisements) =>
        /\ ScannedWholeDirectory
        /\ retval.value = UnionInScanOrder(Len(spawned))

\* two helpers advertised different names and the list holds both, in order
C4_Witness ==
    /\ ListReturned
    /\ DisjointAdvertisements
    /\ Len(spawned) >= 2
    /\ Advertised(spawned[1]) = <<"usb-ext">>
    /\ Advertised(spawned[2]) = <<"eth-ext">>
    /\ Len(retval.value) = 2
    /\ retval.value[1] = if_info("usb-ext", ExtcapPath(dir[1]))
    /\ retval.value[2] = if_info("eth-ext", ExtcapPath(dir[2]))

\* a run that could not start, exited nonzero, or listed no interface
FailedRun(run) == Advertised(run) = << >>

\* C5: a helper run that fails during discovery adds no record and no
\* registry entry, the scan still runs every other directory entry, and the
\* caller's error slot is never set.
C5_ProbeFailureIsSkipped ==
    /\ ListRunning => keep_going /\ err_str \in {NULL, "noslot"}
    /\ ListReturned =>
           /\ ScannedWholeDirectory
           /\ err_str \in {NULL, "noslot"}
           /\ \A i \in DOMAIN spawned :
                  FailedRun(spawned[i]) =>
                      /\ \A k \in DOMAIN retval.value :
                             retval.value[k].extcap # spawned[i].extcap
                      /\ \A name \in Registered(ifaces) :
                             ifaces.map[name] # spawned[i].extcap

\* the first helper exited nonzero after printing an interface, the second
\* was still run and its interface is listed
C5_Witness ==
    /\ ListReturned
    /\ Len(spawned) >= 2
    /\ spawned[1].status /\ spawned[1].exit_status # 0
    /\ spawned[1].output # << >>
    /\ Advertised(spawned[2]) # << >>
    /\ retval.value # << >>
    /\ err_str = NULL

\* the names advertised in the pass
AdvertisedNames == UNION {Range(Advertised(spawned[i])) : i \in DOMAIN spawned}

\* C6: a discovery pass starts from an empty registry, whatever the registry
\* held (nothing, an empty table, entries), and when it returns the registry
\* holds exactly the names accepted in this pass.
C6_RegistryRebuiltPerPass ==
    /\ (ListRunning /\ pos = 1) =>
           ifaces = [created |-> TRUE, map |-> EmptyMap]
    /\ (ListRunning \/ ListReturned) =>
           /\ ifaces.created
           /\ Registered(ifaces) = AdvertisedNames
    /\ ListReturned =>
           Registered(ifaces) = {retval.value[k].name : k \in DOMAIN retval.value}

\* a name registered before the pass, advertised by nobody in it, is gone,
\* while another name was accepted
C6_Witness ==
    /\ ListReturned
    /\ "eth-ext" \in prevNames
    /\ "eth-ext" \notin Registered(ifaces)
    /\ "usb-ext" \in Registered(ifaces)

(***************************************************************************)
(* Properties of the capture session.                                      *)
(***************************************************************************)
\* extcaps_init_initerfaces is running or was the last call to return: the
\* history `events` is that of its loop
InitCall == pc = "extcaps_init_initerfaces"
            \/ (pc = "idle" /\ retval.fn = "extcaps_init_initerfaces")
InitFailed == pc = "idle" /\ retval.fn = "extcaps_init_initerfaces"
              /\ retval.value = FALSE

\* the helper-backed entries of the session, by index
ExtcapEntries == {k \in DOMAIN session : session[k].if_type = "IF_EXTCAP"}

\* C7: extcap_create_pipe returns TRUE only if on return *fifo is set and a
\* FIFO exists at that path, and returns FALSE whenever the temporary name
\* or the FIFO could not be made.
C7_CreatePipeReportsFailure ==
    InitCall =>
        \A k \in DOMAIN events :
            /\ events[k].pipe_ret => (events[k].fifo # NULL /\ events[k].is_fifo)
            /\ ~events[k].created => ~events[k].pipe_ret

\* C8: when the channel of an entry cannot be created, the init call returns
\* FALSE at that entry: the entry is the last one the call touched, no helper
\* was started for it, and the FIFOs made for earlier entries are still there.
C8_ChannelFailureAbortsInit ==
    InitCall =>
        \A k \in DOMAIN events :
            ~events[k].created =>
                /\ k = Len(events)
                /\ pc = "idle"
                /\ retval.value = FALSE
                /\ ~events[k].launched
                /\ \A j \in 1..(k - 1) :
                       events[j].created => disk[events[j].fifo] = "fifo"

\* C9, as claimed: when extcaps_init_initerfaces returns FALSE, the call has
\* started no helper for any entry of the session.
C9_NoHelperStartedOnFailure ==
    InitFailed => \A k \in DOMAIN events : ~events[k].launched

\* C9, amended: when extcaps_init_initerfaces returns FALSE, the entry whose
\* channel failed is the last one the call touched; no helper was started for
\* it and it and every later entry are as they were before the call, while
\* for every helper-backed entry before it g_spawn_async has been called.
C9_NoHelperFromFailedEntryOn ==
    InitFailed =>
        LET k == Len(events)
            failed == events[k].entry
        IN  /\ k >= 1
            /\ ~events[k].pipe_ret
            /\ ~events[k].launched
            /\ \A i \in DOMAIN session :
                   i >= failed => session[i] = before.session[i]
            /\ {events[j].entry : j \in 1..(k - 1)}
                   = {i \in ExtcapEntries : i < failed}
            /\ \A j \in 1..(k - 1) : events[j].launched

\* init failed at the second helper-backed entry after the helper of the
\* first was started
C9_Witness ==
    /\ InitFailed
    /\ Len(events) = 2
    /\ events[1].launched
    /\ events[1].pid # UnsetPid
    /\ session[events[1].entry].extcap_pid = events[1].pid
    /\ ~events[2].launched

\* extcap_cleanup has returned and the call before it was extcap_cleanup too
CleanupTwice ==
    /\ pc = "idle"
    /\ retval.fn = "extcap_cleanup"
    /\ before.fn = "extcap_cleanup"

DltsReturned == pc = "idle" /\ retval.fn = "extcap_get_if_dlts"

\* C11: when extcap_get_if_dlts is given an error-string slot and returns no
\* capabilities, the slot holds a descriptive string (name not registered,
\* helper not started or exited nonzero, no link type in the output); when
\* it returns capabilities the slot holds NULL.
C11_NoCapsSetsErrorString ==
    (DltsReturned /\ err_str # "noslot") =>
        /\ retval.value = NoCaps => err_str \notin {NULL, "unset"}
        /\ retval.value # NoCaps => err_str = NULL

(***************************************************************************)
(* Process identifiers of the session entries.                             *)
(***************************************************************************)
\* the pids g_spawn_async can return for a helper it started
SpawnedPids == {Pid(c, k) : c \in 1..MaxCalls, k \in 1..MaxEntries}

\* extcap_cleanup is running or was the last call to return: the history
\* `events` is that of its loop
CleanupCall == pc = "extcap_cleanup"
               \/ (pc = "idle" /\ retval.fn = "extcap_cleanup")
CleanupReturned == pc = "idle" /\ retval.fn = "extcap_cleanup"

\* C12: when g_spawn_async fails for an entry, the entry's pid is (GPid)-1,
\* the init call goes on and does not return FALSE for it, and a later
\* extcap_cleanup releases no process handle for an entry that has no
\* running helper.
C12_SpawnFailureRecordsInvalidPid ==
    /\ InitCall =>
           \A j \in DOMAIN events :
               (events[j].launched /\ ~events[j].spawn_ok) =>
                   /\ session[events[j].entry].extcap_pid = InvalidPid
                   /\ ~InitFailed
    /\ CleanupCall =>
           \A j \in DOMAIN events :
               session[events[j].entry].extcap_pid \notin SpawnedPids =>
                   events[j].closed = InvalidPid

\* C13: when extcap_cleanup has returned, every helper-backed entry that had
\* a valid pid when it was called has had that pid handed to
\* g_spawn_close_pid and now stores (GPid)-1.
C13_CleanupInvalidatesPid ==
    CleanupReturned =>
        \A k \in ExtcapEntries :
            before.session[k].extcap_pid # InvalidPid =>
                /\ \E j \in DOMAIN events :
                       /\ events[j].entry = k
                       /\ events[j].closed = before.session[k].extcap_pid
                /\ session[k].extcap_pid = InvalidPid

(***************************************************************************)
(* The order of teardown.                                                  *)
(***************************************************************************)
\* the helper-backed entries among the first n of the session, in order
HelperBacked(n) ==
    SelectSeq([i \in 1..n |-> i], LAMBDA i : session[i].if_type = "IF_EXTCAP")

\* the entries the running / last call went through, in order
Visited == [j \in DOMAIN events |-> events[j].entry]

\* C14: extcap_cleanup goes through every helper-backed entry in array
\* order and tears each one down, whatever happened to the entries before
\* it: the FIFO is unlinked when it is on disk (and stays only if ws_unlink
\* failed), and the pid is released when it is not (GPid)-1.
C14_CleanupVisitsEveryEntry ==
    /\ pc = "extcap_cleanup" => Visited = HelperBacked(icnt - 1)
    /\ CleanupReturned => Visited = HelperBacked(Len(session))
    /\ CleanupCall =>
           \A j \in DOMAIN events :
               LET interface_opts == session[events[j].entry]
               IN  /\ events[j].closed = interface_opts.extcap_pid
                   /\ interface_opts.extcap_pid # InvalidPid =>
                          \E r \in DOMAIN released :
                              released[r] = interface_opts.extcap_pid
                   /\ FifoOnDisk(disk, interface_opts) <=>
                          events[j].unlink = "failed"

\* ws_unlink failed on the first entry, whose helper had not started either,
\* and the second entry was still unlinked and its helper released
C14_Witness ==
    /\ CleanupReturned
    /\ Len(events) = 2
    /\ events[1].unlink = "failed"
    /\ events[1].closed \notin SpawnedPids
    /\ events[2].unlink = "done"
    /\ events[2].closed \in SpawnedPids

(***************************************************************************)
(* The life cycle of a helper-backed entry.                                *)
(***************************************************************************)
\* the entry was still as configured when the running / last call started:
\* no channel path and no pid attached
Configured(interface_opts) ==
    /\ interface_opts.extcap_fifo = NULL
    /\ interface_opts.extcap_pid = InvalidPid

\* C15: an init call starts a helper for an entry only after it has created
\* the entry's FIFO in the same call, and it creates a FIFO or starts a
\* helper only for an entry that was still Configured when the call began.
C15_EntriesOnlyMoveForward ==
    InitCall =>
        \A j \in DOMAIN events :
            /\ events[j].launched => events[j].created
            /\ (events[j].created \/ events[j].launched) =>
                   Configured(before.session[events[j].entry])

(***************************************************************************)
(* The command line of a helper.                                           *)
(***************************************************************************)
RECURSIVE KeysThenValues(_)
\* the pairs of an argument table as words: key then value, a NULL value
\* left out
KeysThenValues(pairs) ==
    IF pairs = << >> THEN << >>
    ELSE LET pair == Head(pairs)
         IN  (IF pair[2] = NULL THEN <<pair[1]>> ELSE <<pair[1], pair[2]>>)
             \o KeysThenValues(Tail(pairs))

\* C16: every helper started by an init call gets the arguments helper path,
\* --capture, --extcap-interface, the entry's name, --fifo, the path of the
\* FIFO created for the entry in that call, then the entry's extra arguments
\* as key then value, a NULL value left out.
C16_HelperArgumentSequence ==
    InitCall =>
        \A j \in DOMAIN events :
            events[j].launched =>
                LET interface_opts == session[events[j].entry]
                IN  /\ events[j].created
                    /\ events[j].argv =
                           <<interface_opts.extcap, "--capture",
                             "--extcap-interface", interface_opts.name,
                             "--fifo", events[j].fifo>>
                           \o KeysThenValues(interface_opts.extcap_args.pairs)

(***************************************************************************)
(* Which candidates a discovery pass accepts.                              *)
(***************************************************************************)
RECURSIVE Candidates(_)
\* the candidate interfaces of the first n runs of the pass, in the order
\* interfaces_cb meets them, each with the helper that emitted it
Candidates(n) ==
    IF n = 0 THEN << >>
    ELSE LET names == Advertised(spawned[n])
         IN  Candidates(n - 1)
             \o [k \in 1..Len(names) |->
                    [name |-> names[k], extcap |-> spawned[n].extcap]]

\* the earlier candidates with the name of candidate i, and the helper of
\* the first of them
Earlier(cands, i) == {j \in 1..(i - 1) : cands[j].name = cands[i].name}
Claimant(cands, i) ==
    cands[CHOOSE j \in Earlier(cands, i) : \A h \in Earlier(cands, i) : j <= h].extcap

\* the name of candidate i was claimed before it, by any helper / by a
\* helper other than its own
ClaimedByAny(cands, i) == Earlier(cands, i) # {}
ClaimedByOther(cands, i) ==
    Earlier(cands, i) # {} /\ Claimant(cands, i) # cands[i].extcap

\* the records of the candidates that are not skipped, in order, when a
\* candidate is skipped if claimed by another helper only (other = TRUE) or
\* if claimed at all (other = FALSE)
Kept(cands, other) ==
    LET skip(i) == IF other THEN ClaimedByOther(cands, i)
                   ELSE ClaimedByAny(cands, i)
        idx == SelectSeq([i \in 1..Len(cands) |-> i], LAMBDA i : ~skip(i))
    IN  [k \in 1..Len(idx) |-> if_info(cands[idx[k]].name, cands[idx[k]].extcap)]

\* the warnings of the candidates that are skipped
Skipped(cands, other) ==
    {[name |-> cands[i].name, by |-> Claimant(cands, i), extcap |-> cands[i].extcap] :
        i \in {h \in 1..Len(cands) :
                  IF other THEN ClaimedByOther(cands, h) ELSE ClaimedByAny(cands, h)}}

\* C17, as claimed: a candidate is skipped only when its name is already
\* claimed by a different helper path; every other candidate, one whose
\* name this same helper claimed before included, is registered and gets a
\* record in the result.
C17_SkippedOnlyIfOtherPath ==
    (ListRunning \/ ListReturned) =>
        LET cands == Candidates(Len(spawned))
        IN  /\ data = Kept(cands, TRUE)
            /\ warnings = Skipped(cands, TRUE)

\* C17, amended: a candidate is skipped exactly when its name is already
\* registered, whichever helper registered it, this same helper included;
\* every other candidate is registered to its helper and gets a record in
\* the result.
C17_SkippedIfRegistered ==
    (ListRunning \/ ListReturned) =>
        LET cands == Candidates(Len(spawned))
        IN  /\ data = Kept(cands, FALSE)
            /\ warnings = Skipped(cands, FALSE)
            /\ \A i \in 1..Len(cands) :
                   ~ClaimedByAny(cands, i) =>
                       g_hash_table_lookup(ifaces, cands[i].name) = cands[i].extcap

\* one helper emitted eth-ext twice: one record, and a warning naming the
\* helper itself as the owner
C17_Witness ==
    /\ ListReturned
    /\ Len(spawned) = 1
    /\ Advertised(spawned[1]) = <<"eth-ext", "eth-ext">>
    /\ retval.value = <<if_info("eth-ext", spawned[1].extcap)>>
    /\ warnings = {[name |-> "eth-ext", by |-> spawned[1].extcap,
                    extcap |-> spawned[1].extcap]}

(***************************************************************************)
(* Agreement of the returned list and the registry.                        *)
(***************************************************************************)
\* the positions of the returned list that hold a record for name
RecordsOf(name) == {k \in DOMAIN retval.value : retval.value[k].name = name}

\* C19: when a discovery pass has returned, every record's name is
\* registered to the record's helper path, every registered name has exactly
\* one record, and no two records share a name.
C19_ListAgreesWithRegistry ==
    ListReturned =>
        /\ \A k \in DOMAIN retval.value :
               /\ extcap_if_exists(ifaces, retval.value[k].name)
               /\ extcap_if_executable(ifaces, retval.value[k].name)
                      = retval.value[k].extcap
        /\ \A name \in Registered(ifaces) : Cardinality(RecordsOf(name)) = 1
        /\ \A k, h \in DOMAIN retval.value :
               retval.value[k].name = retval.value[h].name => k = h

\* the first helper emitted eth-ext twice, the second emitted eth-ext again
\* and usb-ext: one record for each name, eth-ext registered to the first
\* helper and usb-ext to the second
C19_Witness ==
    /\ ListReturned
    /\ Len(spawned) = 2
    /\ Advertised(spawned[1]) = <<"eth-ext", "eth-ext">>
    /\ Advertised(spawned[2]) = <<"eth-ext", "usb-ext">>
    /\ retval.value = <<if_info("eth-ext", spawned[1].extcap),
                        if_info("usb-ext", spawned[2].extcap)>>
    /\ Registered(ifaces) = {"eth-ext", "usb-ext"}

(***************************************************************************)
(* What the session calls leave alone.                                     *)
(***************************************************************************)
\* an entry with its channel path and pid taken off
Detached(interface_opts) ==
    [interface_opts EXCEPT !.extcap_fifo = NULL, !.extcap_pid = InvalidPid]

C20_ReleasedAtMostOnce ==
    /\ \A r, q \in DOMAIN released : released[r] = released[q] => r = q
    /\ \A r \in DOMAIN released : released[r] \in SpawnedPids

=============================================================================
